---- MODULE Spec2Model ----
(***************************************************************************)
(* Landing-page content store and service layer (app/models.py,            *)
(* app/landing_service.py).  The record store holds four tables; every     *)
(* service method is one unit of work against it.  Rows are records keyed  *)
(* by column name; the server-assigned timestamps (created_at, updated_at) *)
(* are left out of the rows, every other column the methods read or write  *)
(* is kept.                                                                *)
(***************************************************************************)
EXTENDS Integers, Sequences, FiniteSets, TLC

VARIABLES
    landing_pages,      \* table landing_pages, in insertion order (id = position)
    hero_sections,      \* table hero_sections
    features,           \* table features
    cta_sections,       \* table cta_sections
    landing_page_themes,\* table landing_page_themes
    hero_kwargs,        \* keyword arguments each hero row's Create schema was built from
    feature_kwargs,     \* same for features
    cta_kwargs,         \* same for CTA sections
    pc,                 \* position of the caller inside create_sample_data
    landing_page,       \* create_sample_data's local: the page it created
    op,                 \* the call that returned or raised last
    arg,                \* the keyword arguments it was given
    ret,                \* what it returned
    err,                \* what it raised ("none" when it returned)
    view,               \* what create_features_section was given and what it rendered
    req,                \* the requests to the / route: position and locals of each handler
    sess                \* the session scope of the repository operation under way

vars == <<landing_pages, hero_sections, features, cta_sections, landing_page_themes,
          hero_kwargs, feature_kwargs, cta_kwargs, pc, landing_page, op, arg, ret, err,
          view, req, sess>>

tables == <<landing_pages, hero_sections, features, cta_sections, landing_page_themes>>
kwargs_log == <<hero_kwargs, feature_kwargs, cta_kwargs>>
service == <<pc, landing_page, op, arg, ret, err>>
outside == <<view, req, sess>>      \* state outside the service calls

----------------------------------------------------------------------------
(* Bounds of the model *)

MaxRows == 2        \* component and theme rows in the store when an explicit insert starts
MaxEdits == 1       \* rows the store's update capability may have edited
MaxSessionRows == 1 \* component rows in the store when a followed session starts an insert
MaxVisits == 2      \* requests to the / route answered before the last one

----------------------------------------------------------------------------
(* Values *)

None == "None"                      \* Python None in an Optional[str] column
NoRow == [is_none |-> TRUE]         \* Python None where a row was expected

Slugs == {"home", "about"}
PageIds == 1 .. (Cardinality(Slugs) + 1)   \* the largest id never names a page
Orders == {1, 2}                    \* display_order values the store may be updated to
ThemeNames == {"default", "dark"}

Range(s) == {s[i] : i \in DOMAIN s}

Requests == {1, 2}                  \* concurrent requests to the / route
NoView == [rendered |-> FALSE, features |-> << >>,
           featured_features |-> << >>, other_features |-> << >>]
NoId == 0                           \* the id None of a row not stored yet
Pending == [pending |-> TRUE]       \* a lookup not made yet
NoRequest == [at |-> "idle", i |-> 0, lookup |-> Pending, page |-> NoRow,
              called |-> FALSE, err |-> "none", out |-> << >>, reads |-> 0,
              served |-> 0]
NoSession == [at |-> "out", open |-> 0, acquired |-> 0, call |-> "none",
              kw |-> [no_args |-> TRUE], res |-> [ret |-> NoRow, err |-> "none"]]

\* Rows outside landing_pages, which the slug constraint bounds by itself.
StoredRows ==
    Len(hero_sections) + Len(features) + Len(cta_sections) + Len(landing_page_themes)

----------------------------------------------------------------------------
(* Schemas of app/models.py *)

\* A pydantic schema keeps the declared fields of the keyword arguments and
\* silently ignores the others; model_dump() returns the declared fields,
\* defaults filled in.
Validate(fields, defaults, kw) ==
    [f \in fields |-> IF f \in DOMAIN kw THEN kw[f] ELSE defaults[f]]

\* The row stored inactive.
Row_inactive(defaults, dump, id) ==
    [f \in DOMAIN defaults \cup {"id"} |->
        IF f = "id" THEN id
        ELSE IF f = "is_active" THEN FALSE
        ELSE IF f \in DOMAIN dump THEN dump[f] ELSE defaults[f]]

\* Table(**dump): the dumped fields, the table's defaults for the other
\* columns, and the primary key the store assigns on commit.
Row(defaults, dump, id) ==
    [f \in DOMAIN defaults \cup {"id"} |->
        IF f = "id" THEN id
        ELSE IF f \in DOMAIN dump THEN dump[f] ELSE defaults[f]]

LandingPageDefaults ==
    [title |-> None, slug |-> None, is_active |-> TRUE,
     meta_title |-> None, meta_description |-> None]

LandingPageCreateFields == {"title", "slug", "meta_title", "meta_description"}

LandingPageCreate(kw) == Validate(LandingPageCreateFields, LandingPageDefaults, kw)

HeroSectionDefaults ==
    [landing_page_id |-> 0, headline |-> None, subheadline |-> None,
     description |-> None, background_image_url |-> None,
     background_color |-> None, text_color |-> None,
     primary_button_text |-> None, primary_button_url |-> None,
     secondary_button_text |-> None, secondary_button_url |-> None,
     alignment |-> "center", height |-> "full",
     display_order |-> 0, is_active |-> TRUE]

HeroSectionCreateFields ==
    {"landing_page_id", "headline", "subheadline", "description",
     "background_image_url", "primary_button_text", "primary_button_url",
     "alignment"}

HeroSectionCreate(kw) == Validate(HeroSectionCreateFields, HeroSectionDefaults, kw)

FeatureDefaults ==
    [landing_page_id |-> 0, title |-> None, description |-> None,
     icon |-> None, icon_color |-> None, image_url |-> None,
     link_text |-> None, link_url |-> None,
     background_color |-> None, text_color |-> None,
     display_order |-> 0, is_featured |-> FALSE, is_active |-> TRUE]

FeatureCreateFields ==
    {"landing_page_id", "title", "description", "icon", "image_url",
     "link_text", "link_url", "is_featured"}

FeatureCreate(kw) == Validate(FeatureCreateFields, FeatureDefaults, kw)

CallToActionSectionDefaults ==
    [landing_page_id |-> 0, headline |-> None, subheadline |-> None,
     description |-> None,
     primary_button_text |-> None, primary_button_url |-> None,
     primary_button_style |-> "primary",
     secondary_button_text |-> None, secondary_button_url |-> None,
     secondary_button_style |-> "secondary",
     background_color |-> None, text_color |-> None,
     background_image_url |-> None,
     alignment |-> "center", size |-> "medium",
     display_order |-> 0, is_active |-> TRUE]

CallToActionSectionCreateFields ==
    {"landing_page_id", "headline", "subheadline", "description",
     "primary_button_text", "primary_button_url",
     "secondary_button_text", "secondary_button_url", "alignment"}

CallToActionSectionCreate(kw) ==
    Validate(CallToActionSectionCreateFields, CallToActionSectionDefaults, kw)

LandingPageThemeDefaults ==
    [name |-> None, is_active |-> TRUE]

----------------------------------------------------------------------------
(* Constraints the store enforces on commit *)

\* The unique constraint on slug left out of the table declaration.
SlugUnique_undeclared(slug) == TRUE

\* The unique constraint applied among active pages only.
SlugUnique_among_active(slug) ==
    \A i \in DOMAIN landing_pages :
        landing_pages[i].is_active => landing_pages[i].slug # slug

\* LandingPage.slug is declared unique.
SlugUnique(slug) == \A i \in DOMAIN landing_pages : landing_pages[i].slug # slug

\* landing_page_id is declared a foreign key to landing_pages.id, and the
\* store rejects an insert whose foreign-key target is missing.
ForeignKeyOk(landing_page_id) == landing_page_id \in DOMAIN landing_pages

----------------------------------------------------------------------------
(* Ordering of query results *)

\* Character codes of the titles that occur, for the store's byte-wise
\* string comparison.
Chars(s) ==
    IF s = "Feature A" THEN <<70,101,97,116,117,114,101,32,65>> ELSE
    IF s = "Feature B" THEN <<70,101,97,116,117,114,101,32,66>> ELSE
    IF s = "Lightning Fast Performance" THEN <<76,105,103,104,116,110,105,110,103,32,70,97,115,116,32,80,101,114,102,111,114,109,97,110,99,101>> ELSE
    IF s = "Intuitive Design" THEN <<73,110,116,117,105,116,105,118,101,32,68,101,115,105,103,110>> ELSE
    IF s = "Enterprise Security" THEN <<69,110,116,101,114,112,114,105,115,101,32,83,101,99,117,114,105,116,121>> ELSE
    IF s = "24/7 Support" THEN <<50,52,47,55,32,83,117,112,112,111,114,116>> ELSE
    IF s = "Scalable Infrastructure" THEN <<83,99,97,108,97,98,108,101,32,73,110,102,114,97,115,116,114,117,99,116,117,114,101>> ELSE
    IF s = "Advanced Analytics" THEN <<65,100,118,97,110,99,101,100,32,65,110,97,108,121,116,105,99,115>> ELSE
    <<>>

\* a sorts strictly before b: lexicographic order on sequences of integers.
RECURSIVE LexLess(_, _)
LexLess(a, b) ==
    IF b = <<>> THEN FALSE
    ELSE IF a = <<>> THEN TRUE
    ELSE IF Head(a) # Head(b) THEN Head(a) < Head(b)
    ELSE LexLess(Tail(a), Tail(b))

\* ORDER BY: every sequence of the rows S that ascends in the sort key K.
\* Rows with equal keys come in an order the store chooses.
RECURSIVE OrderBy(_, _)
OrderBy(S, K) ==
    IF S = {} THEN {<<>>}
    ELSE UNION { { <<x>> \o t : t \in OrderBy(S \ {x}, K) } :
                 x \in {y \in S : \A z \in S : ~LexLess(K[z], K[y])} }

----------------------------------------------------------------------------
(* Read accessors of LandingPageService.  Each operator is the set of values *)
(* the method can return in the current store state.                         *)

\* .first(): one of the matching rows, or None when there is none.
First(S) == IF S = {} THEN {NoRow} ELSE S

\* The lookup without its is_active condition.
get_active_landing_page_any_state(slug) ==
    First({p \in Range(landing_pages) : p.slug = slug})

get_active_landing_page(slug) ==
    First({p \in Range(landing_pages) : p.slug = slug /\ p.is_active})

\* The query without its is_active condition.
get_hero_sections_any_state(landing_page_id) ==
    LET S == {h \in Range(hero_sections) : h.landing_page_id = landing_page_id}
    IN  OrderBy(S, [h \in S |-> <<h.display_order>>])

get_hero_sections(landing_page_id) ==
    LET S == {h \in Range(hero_sections) :
                 h.landing_page_id = landing_page_id /\ h.is_active}
    IN  OrderBy(S, [h \in S |-> <<h.display_order>>])

\* The query ordered by display_order alone.
get_features_order_only(landing_page_id) ==
    LET S == {f \in Range(features) :
                 f.landing_page_id = landing_page_id /\ f.is_active}
    IN  OrderBy(S, [f \in S |-> <<f.display_order>>])

\* The query with its two conditions joined by or_ instead of and_.
get_features_either_condition(landing_page_id) ==
    LET S == {f \in Range(features) :
                 f.landing_page_id = landing_page_id \/ f.is_active}
    IN  OrderBy(S, [f \in S |-> <<f.display_order>> \o Chars(f.title)])

get_features(landing_page_id) ==
    LET S == {f \in Range(features) :
                 f.landing_page_id = landing_page_id /\ f.is_active}
    IN  OrderBy(S, [f \in S |-> <<f.display_order>> \o Chars(f.title)])

\* The query without its landing_page_id condition.
get_cta_sections_all_pages(landing_page_id) ==
    LET S == {c \in Range(cta_sections) : c.is_active}
    IN  OrderBy(S, [c \in S |-> <<c.display_order>>])

get_cta_sections(landing_page_id) ==
    LET S == {c \in Range(cta_sections) :
                 c.landing_page_id = landing_page_id /\ c.is_active}
    IN  OrderBy(S, [c \in S |-> <<c.display_order>>])

get_theme(name) ==
    First({t \in Range(landing_page_themes) : t.name = name /\ t.is_active})

----------------------------------------------------------------------------
(* Creation methods of LandingPageService.  Each is one session: build the *)
(* row from data.model_dump(), add, commit, refresh, return.  A commit the  *)
(* store rejects raises IntegrityError and persists nothing.  Each operator *)
(* gives the table after the call, the row returned and the error raised.   *)

\* The primary key of the newest stored row given again.
Insert_id_reused(table, defaults, data, accepted) ==
    IF accepted
    THEN LET row == Row(defaults, data, IF table = << >> THEN 1 ELSE Len(table))
         IN  [table |-> Append(table, row), ret |-> row, err |-> "none"]
    ELSE [table |-> table, ret |-> NoRow, err |-> "IntegrityError"]

Insert(table, defaults, data, accepted) ==
    IF accepted
    THEN LET row == Row(defaults, data, Len(table) + 1)
         IN  [table |-> Append(table, row), ret |-> row, err |-> "none"]
    ELSE [table |-> table, ret |-> NoRow, err |-> "IntegrityError"]

\* The page committed whatever slugs are stored.
create_landing_page_unchecked(data) ==
    Insert(landing_pages, LandingPageDefaults, data, TRUE)

create_landing_page(data) ==
    Insert(landing_pages, LandingPageDefaults, data, SlugUnique(data.slug))

create_hero_section(data) ==
    Insert(hero_sections, HeroSectionDefaults, data, ForeignKeyOk(data.landing_page_id))

\* The feature committed whatever page its landing_page_id names.
create_feature_unchecked(data) ==
    Insert(features, FeatureDefaults, data, TRUE)

create_feature(data) ==
    Insert(features, FeatureDefaults, data, ForeignKeyOk(data.landing_page_id))

create_cta_section(data) ==
    Insert(cta_sections, CallToActionSectionDefaults, data, ForeignKeyOk(data.landing_page_id))

\* The log of keyword arguments follows the rows of its table.
Logged(log, kw, r) == IF r.err = "none" THEN Append(log, kw) ELSE log

----------------------------------------------------------------------------
(* Calls of the creation methods, with the payloads of the service tests *)

Idle == [at |-> "idle", i |-> 0]

LandingPagePayloads == {[title |-> "Test Page", slug |-> s] : s \in Slugs}

HeroPayloads(p) ==
    {[landing_page_id |-> p, headline |-> "First Hero", display_order |-> 2],
     [landing_page_id |-> p, headline |-> "Second Hero", display_order |-> 1]}

FeaturePayloads(p) ==
    {[landing_page_id |-> p, title |-> "Feature B",
      description |-> "Description B", display_order |-> 2],
     [landing_page_id |-> p, title |-> "Feature A",
      description |-> "Description A", display_order |-> 1],
     [landing_page_id |-> p, title |-> "Feature B",
      description |-> "Description B", display_order |-> 1],
     [landing_page_id |-> p, title |-> "Feature A",
      description |-> "Description A", icon |-> "star", is_featured |-> TRUE]}

CtaPayloads(p) ==
    {[landing_page_id |-> p, headline |-> "First CTA",
      primary_button_text |-> "Action 1", primary_button_url |-> "/action1",
      display_order |-> 2],
     [landing_page_id |-> p, headline |-> "Second CTA",
      primary_button_text |-> "Action 2", primary_button_url |-> "/action2",
      display_order |-> 1]}

\* What the caller sees of a call: its name, its keyword arguments, the
\* value returned, the error raised.
Returns(name, kw, r) ==
    /\ op' = name
    /\ arg' = kw
    /\ ret' = r.ret
    /\ err' = r.err

CreateLandingPage ==
    /\ pc = Idle
    /\ \E kw \in LandingPagePayloads :
          LET r == create_landing_page(LandingPageCreate(kw))
          IN  /\ landing_pages' = r.table
              /\ Returns("create_landing_page", kw, r)
    /\ UNCHANGED outside
    /\ UNCHANGED <<hero_sections, features, cta_sections, landing_page_themes,
                   kwargs_log, pc, landing_page>>

CreateHeroSection ==
    /\ pc = Idle
    /\ StoredRows < MaxRows
    /\ \E p \in PageIds : \E kw \in HeroPayloads(p) :
          LET r == create_hero_section(HeroSectionCreate(kw))
          IN  /\ hero_sections' = r.table
              /\ hero_kwargs' = Logged(hero_kwargs, kw, r)
              /\ Returns("create_hero_section", kw, r)
    /\ UNCHANGED outside
    /\ UNCHANGED <<landing_pages, features, cta_sections, landing_page_themes,
                   feature_kwargs, cta_kwargs, pc, landing_page>>

CreateFeature ==
    /\ pc = Idle
    /\ StoredRows < MaxRows
    /\ \E p \in PageIds : \E kw \in FeaturePayloads(p) :
          LET r == create_feature(FeatureCreate(kw))
          IN  /\ features' = r.table
              /\ feature_kwargs' = Logged(feature_kwargs, kw, r)
              /\ Returns("create_feature", kw, r)
    /\ UNCHANGED outside
    /\ UNCHANGED <<landing_pages, hero_sections, cta_sections, landing_page_themes,
                   hero_kwargs, cta_kwargs, pc, landing_page>>

CreateCtaSection ==
    /\ pc = Idle
    /\ StoredRows < MaxRows
    /\ \E p \in PageIds : \E kw \in CtaPayloads(p) :
          LET r == create_cta_section(CallToActionSectionCreate(kw))
          IN  /\ cta_sections' = r.table
              /\ cta_kwargs' = Logged(cta_kwargs, kw, r)
              /\ Returns("create_cta_section", kw, r)
    /\ UNCHANGED outside
    /\ UNCHANGED <<landing_pages, hero_sections, features, landing_page_themes,
                   hero_kwargs, feature_kwargs, pc, landing_page>>

----------------------------------------------------------------------------
(* create_sample_data: the literal content and the sequence of inserts *)

landing_page_data_kwargs ==
    [title |-> "Modern Landing Page",
     slug |-> "home",
     meta_title |-> "Modern Landing Page - Beautiful Design",
     meta_description |-> "A modern and elegant landing page with clean design and engaging features."]

hero_data_kwargs(id) ==
    [landing_page_id |-> id,
     headline |-> "Transform Your Business with Modern Solutions",
     subheadline |-> "Unlock your potential with our cutting-edge platform",
     description |-> "Experience the future of business automation with our intuitive, powerful, and beautifully designed platform that grows with your needs.",
     background_color |-> "#1e293b",
     text_color |-> "#ffffff",
     primary_button_text |-> "Get Started",
     primary_button_url |-> "/signup",
     alignment |-> "center",
     height |-> "full"]

\* features_data with is_featured missing from the third entry.
features_data_kwargs_two_featured(id) ==
    << [landing_page_id |-> id, title |-> "Lightning Fast Performance",
        description |-> "Built", icon |-> "speed", icon_color |-> "#10b981",
        display_order |-> 1, is_featured |-> TRUE],
       [landing_page_id |-> id, title |-> "Intuitive Design",
        description |-> "User-centered", icon |-> "design_services",
        icon_color |-> "#3b82f6", display_order |-> 2, is_featured |-> TRUE],
       [landing_page_id |-> id, title |-> "Enterprise Security",
        description |-> "Bank-level", icon |-> "security",
        icon_color |-> "#8b5cf6", display_order |-> 3],
       [landing_page_id |-> id, title |-> "24/7 Support",
        description |-> "Our", icon |-> "support_agent",
        icon_color |-> "#f59e0b", display_order |-> 4],
       [landing_page_id |-> id, title |-> "Scalable Infrastructure",
        description |-> "From", icon |-> "trending_up",
        icon_color |-> "#ef4444", display_order |-> 5],
       [landing_page_id |-> id, title |-> "Advanced Analytics",
        description |-> "Make", icon |-> "analytics",
        icon_color |-> "#06b6d4", display_order |-> 6] >>

features_data_kwargs(id) ==
    << [landing_page_id |-> id,
        title |-> "Lightning Fast Performance",
        description |-> "Built with modern technology stack for maximum speed and reliability. Experience blazing-fast load times and seamless user interactions.",
        icon |-> "speed", icon_color |-> "#10b981",
        display_order |-> 1, is_featured |-> TRUE],
       [landing_page_id |-> id,
        title |-> "Intuitive Design",
        description |-> "User-centered design that makes complex tasks simple. Our interface adapts to your workflow, not the other way around.",
        icon |-> "design_services", icon_color |-> "#3b82f6",
        display_order |-> 2, is_featured |-> TRUE],
       [landing_page_id |-> id,
        title |-> "Enterprise Security",
        description |-> "Bank-level security with end-to-end encryption, SSO integration, and compliance with industry standards.",
        icon |-> "security", icon_color |-> "#8b5cf6",
        display_order |-> 3, is_featured |-> TRUE],
       [landing_page_id |-> id,
        title |-> "24/7 Support",
        description |-> "Our dedicated support team is available around the clock to help you succeed with personalized assistance.",
        icon |-> "support_agent", icon_color |-> "#f59e0b",
        display_order |-> 4],
       [landing_page_id |-> id,
        title |-> "Scalable Infrastructure",
        description |-> "From startup to enterprise, our platform scales with your business without compromising performance.",
        icon |-> "trending_up", icon_color |-> "#ef4444",
        display_order |-> 5],
       [landing_page_id |-> id,
        title |-> "Advanced Analytics",
        description |-> "Make data-driven decisions with comprehensive analytics and real-time insights into your business metrics.",
        icon |-> "analytics", icon_color |-> "#06b6d4",
        display_order |-> 6] >>

cta_data_kwargs(id) ==
    [landing_page_id |-> id,
     headline |-> "Ready to Transform Your Business?",
     subheadline |-> "Join thousands of satisfied customers",
     description |-> "Start your journey today with our free trial. No credit card required, no hidden fees, just pure innovation at your fingertips.",
     primary_button_text |-> "Start Free Trial",
     primary_button_url |-> "/trial",
     secondary_button_text |-> "View Pricing",
     secondary_button_url |-> "/pricing",
     background_color |-> "#f8fafc",
     alignment |-> "center",
     size |-> "large"]

\* create_sample_data takes no arguments.
NoArgs == [no_args |-> TRUE]

\* An exception of an inner call propagates out of create_sample_data.
Raises(r) ==
    /\ pc' = Idle
    /\ Returns("create_sample_data", NoArgs, [ret |-> NoRow, err |-> r.err])

\* A rejected page insert caught, the stored home page used instead.
SampleLandingPage_reuse_existing ==
    /\ pc = Idle
    /\ LET r == create_landing_page(LandingPageCreate(landing_page_data_kwargs))
       IN  /\ landing_pages' = r.table
           /\ pc' = [at |-> "hero", i |-> 0]
           /\ landing_page' =
                 IF r.err = "none" THEN r.ret
                 ELSE CHOOSE p \in Range(landing_pages) : p.slug = "home"
           /\ UNCHANGED <<op, arg, ret, err>>
    /\ UNCHANGED outside
    /\ UNCHANGED <<hero_sections, features, cta_sections, landing_page_themes,
                   kwargs_log>>

\* lines 132-142: build landing_page_data and insert the page
SampleLandingPage ==
    /\ pc = Idle
    /\ LET r == create_landing_page(LandingPageCreate(landing_page_data_kwargs))
       IN  /\ landing_pages' = r.table
           /\ IF r.err = "none"
              THEN /\ pc' = [at |-> "hero", i |-> 0]
                   /\ landing_page' = r.ret
                   /\ UNCHANGED <<op, arg, ret, err>>
              ELSE /\ Raises(r)
                   /\ landing_page' = landing_page
    /\ UNCHANGED outside
    /\ UNCHANGED <<hero_sections, features, cta_sections, landing_page_themes,
                   kwargs_log>>

\* lines 144-157: build hero_data and insert the hero section
SampleHero ==
    /\ pc.at = "hero"
    /\ LET kw == hero_data_kwargs(landing_page.id)
           r == create_hero_section(HeroSectionCreate(kw))
       IN  /\ hero_sections' = r.table
           /\ hero_kwargs' = Logged(hero_kwargs, kw, r)
           /\ IF r.err = "none"
              THEN pc' = [at |-> "features", i |-> 1] /\ UNCHANGED <<op, arg, ret, err>>
              ELSE Raises(r)
    /\ UNCHANGED outside
    /\ UNCHANGED <<landing_pages, features, cta_sections, landing_page_themes,
                   feature_kwargs, cta_kwargs, landing_page>>

\* lines 159-215: one iteration of the loop over features_data
SampleFeature ==
    /\ pc.at = "features"
    /\ LET features_data == features_data_kwargs(landing_page.id)
           kw == features_data[pc.i]
           r == create_feature(FeatureCreate(kw))
       IN  /\ features' = r.table
           /\ feature_kwargs' = Logged(feature_kwargs, kw, r)
           /\ IF r.err = "none"
              THEN /\ pc' = IF pc.i < Len(features_data)
                            THEN [at |-> "features", i |-> pc.i + 1]
                            ELSE [at |-> "cta", i |-> 0]
                   /\ UNCHANGED <<op, arg, ret, err>>
              ELSE Raises(r)
    /\ UNCHANGED outside
    /\ UNCHANGED <<landing_pages, hero_sections, cta_sections, landing_page_themes,
                   hero_kwargs, cta_kwargs, landing_page>>

\* lines 217-233: build cta_data, insert the CTA section, return the page
SampleCta ==
    /\ pc.at = "cta"
    /\ LET kw == cta_data_kwargs(landing_page.id)
           r == create_cta_section(CallToActionSectionCreate(kw))
       IN  /\ cta_sections' = r.table
           /\ cta_kwargs' = Logged(cta_kwargs, kw, r)
           /\ IF r.err = "none"
              THEN /\ pc' = Idle
                   /\ Returns("create_sample_data", NoArgs,
                              [ret |-> landing_page, err |-> "none"])
              ELSE Raises(r)
    /\ UNCHANGED outside
    /\ UNCHANGED <<landing_pages, hero_sections, features, landing_page_themes,
                   hero_kwargs, feature_kwargs, landing_page>>

----------------------------------------------------------------------------
(* Failures of the store inside create_sample_data.  Every insert is a      *)
(* session of its own; a commit that the store fails raises                 *)
(* OperationalError, and create_sample_data neither catches it nor undoes   *)
(* the inserts committed before.                                            *)

StoreFailure == [ret |-> NoRow, err |-> "OperationalError"]

\* The page insert (line 139) fails.
SamplePageFault ==
    /\ pc = Idle
    /\ Raises(StoreFailure)
    /\ UNCHANGED outside
    /\ UNCHANGED <<tables, kwargs_log, landing_page>>

\* The inserts of the call undone when a component insert fails.
SampleComponentFault_rollback ==
    /\ pc.at \in {"hero", "features", "cta"}
    /\ Raises(StoreFailure)
    /\ landing_pages' = SubSeq(landing_pages, 1, landing_page.id - 1)
    /\ hero_sections' = SelectSeq(hero_sections,
                            LAMBDA x : x.landing_page_id # landing_page.id)
    /\ features' = SelectSeq(features,
                            LAMBDA x : x.landing_page_id # landing_page.id)
    /\ UNCHANGED outside
    /\ UNCHANGED <<cta_sections, landing_page_themes, kwargs_log, landing_page>>

\* The insert of the hero section (line 157), of a feature (line 215) or of
\* the CTA section (line 231) fails.
SampleComponentFault ==
    /\ pc.at \in {"hero", "features", "cta"}
    /\ Raises(StoreFailure)
    /\ UNCHANGED outside
    /\ UNCHANGED <<tables, kwargs_log, landing_page>>

----------------------------------------------------------------------------
(* The record store's own insert and update capability, used from outside  *)
(* the service: no service method writes is_active or display_order of an  *)
(* existing row, and none inserts a theme.                                 *)

Edited(table) ==
    Cardinality({i \in DOMAIN table :
        \/ ~table[i].is_active
        \/ ("display_order" \in DOMAIN table[i] /\ table[i].display_order # 0)})

EditedRows ==
    Edited(landing_pages) + Edited(hero_sections) + Edited(features)
    + Edited(cta_sections) + Edited(landing_page_themes)

Deactivate(table) ==
    {[table EXCEPT ![i].is_active = FALSE] : i \in {j \in DOMAIN table : table[j].is_active}}

Reorder(table) ==
    {[table EXCEPT ![i].display_order = o] :
        i \in {j \in DOMAIN table : table[j].display_order = 0 /\ table[j].is_active},
        o \in Orders}

store_update ==
    /\ pc = Idle
    /\ EditedRows < MaxEdits
    /\ \/ landing_pages' \in Deactivate(landing_pages)
          /\ UNCHANGED <<hero_sections, features, cta_sections, landing_page_themes>>
       \/ hero_sections' \in Deactivate(hero_sections) \cup Reorder(hero_sections)
          /\ UNCHANGED <<landing_pages, features, cta_sections, landing_page_themes>>
       \/ features' \in Deactivate(features) \cup Reorder(features)
          /\ UNCHANGED <<landing_pages, hero_sections, cta_sections, landing_page_themes>>
       \/ cta_sections' \in Deactivate(cta_sections) \cup Reorder(cta_sections)
          /\ UNCHANGED <<landing_pages, hero_sections, features, landing_page_themes>>
       \/ landing_page_themes' \in Deactivate(landing_page_themes)
          /\ UNCHANGED <<landing_pages, hero_sections, features, cta_sections>>
    /\ Returns("store_update", NoArgs, [ret |-> NoRow, err |-> "none"])
    /\ UNCHANGED outside
    /\ UNCHANGED <<kwargs_log, pc, landing_page>>

\* LandingPageTheme.name is declared unique.
store_insert_theme ==
    /\ pc = Idle
    /\ StoredRows < MaxRows
    /\ \E name \in ThemeNames :
          /\ \A i \in DOMAIN landing_page_themes : landing_page_themes[i].name # name
          /\ landing_page_themes' =
                Append(landing_page_themes,
                       Row(LandingPageThemeDefaults, [name |-> name],
                           Len(landing_page_themes) + 1))
    /\ Returns("store_insert_theme", NoArgs, [ret |-> NoRow, err |-> "none"])
    /\ UNCHANGED outside
    /\ UNCHANGED <<landing_pages, hero_sections, features, cta_sections,
                   kwargs_log, pc, landing_page>>

----------------------------------------------------------------------------
(* create_features_section of app/landing_page.py: the partition of the     *)
(* feature list into the featured cards and the grid of the other features  *)

FeaturedCap == 3

Min(a, b) == IF a < b THEN a ELSE b

\* The slice left off: every featured feature gets a card.
featured_features_uncapped(fs) == SelectSeq(fs, LAMBDA f : f.is_featured)

\* [f for f in features if f.is_featured][:3]
featured_features(fs) ==
    LET sel == SelectSeq(fs, LAMBDA f : f.is_featured)
    IN  SubSeq(sel, 1, Min(FeaturedCap, Len(sel)))

\* [f for f in features if not f.is_featured]
other_features(fs) == SelectSeq(fs, LAMBDA f : ~f.is_featured)

\* Nothing is rendered for an empty list.
create_features_section(fs) ==
    IF fs = << >>
    THEN NoView
    ELSE [rendered |-> TRUE, features |-> fs,
          featured_features |-> featured_features(fs),
          other_features |-> other_features(fs)]

\* The section is rendered from what get_features returns for a page.
RenderFeatures ==
    /\ pc = Idle
    /\ \E P \in PageIds : \E fs \in get_features(P) :
          view' = create_features_section(fs)
    /\ UNCHANGED <<tables, kwargs_log, service, req, sess>>

----------------------------------------------------------------------------
(* The handler of the / route, app/landing_page.py lines 348-363, run by    *)
(* concurrent requests.  Every service call is a session of its own and is  *)
(* one step; the steps of different requests interleave.  req[r] holds the  *)
(* locals of request r: its position, the value the lookup returned, the    *)
(* variable page, whether create_sample_data was invoked, the exception    *)
(* caught, and the sections rendered so far.                                *)

Section(kind, rows) ==
    [k \in 1 .. Len(rows) |-> [kind |-> kind, id |-> rows[k].id]]

ErrorLabel == << [kind |-> "error", id |-> 0] >>
NotFoundLabel == << [kind |-> "not_found", id |-> 0] >>

\* if features: create_features_section(features): the section, its featured
\* cards, its other cards
FeaturesSection(v) ==
    IF v.rendered
    THEN << [kind |-> "features", id |-> 0] >>
         \o Section("featured", v.featured_features)
         \o Section("feature", v.other_features)
    ELSE << >>

Moves(r, new) ==
    /\ req' = [req EXCEPT ![r] = new]
    /\ UNCHANGED <<service, view, sess>>

\* except Exception (lines 358-361): log, show the error label, return
Caught(r, e) == [req[r] EXCEPT !.at = "error", !.called = TRUE, !.err = e,
                               !.out = ErrorLabel]

\* The handler seeding a page that has no hero section as well as a missing one.
RouteLookup_seed_when_empty(r) ==
    /\ req[r].at = "idle"
    /\ \E p \in get_active_landing_page("home") :
          Moves(r, [req[r] EXCEPT
                      !.lookup = p, !.page = p,
                      !.at = IF \/ p = NoRow
                                \/ \A h \in Range(hero_sections) :
                                      h.landing_page_id # p.id
                             THEN "page" ELSE "ui_hero"])
    /\ UNCHANGED <<tables, kwargs_log>>

\* The handler reseeding the components of the page it found.
RouteLookup_reseed_found(r) ==
    /\ req[r].at = "idle"
    /\ \E p \in get_active_landing_page("home") :
          Moves(r, [req[r] EXCEPT
                      !.lookup = p, !.page = p,
                      !.at = IF p = NoRow THEN "page" ELSE "hero"])
    /\ UNCHANGED <<tables, kwargs_log>>

\* The handler completing a found page that has no CTA section.
RouteLookup_repair_partial(r) ==
    /\ req[r].at = "idle"
    /\ \E p \in get_active_landing_page("home") :
          Moves(r, [req[r] EXCEPT
                      !.lookup = p, !.page = p,
                      !.at = IF p = NoRow THEN "page"
                             ELSE IF \A c \in Range(cta_sections) :
                                        c.landing_page_id # p.id
                             THEN "cta" ELSE "ui_hero"])
    /\ UNCHANGED <<tables, kwargs_log>>

\* line 351: page = LandingPageService.get_active_landing_page("home")
RouteLookup(r) ==
    /\ req[r].at = "idle"
    /\ \E p \in get_active_landing_page("home") :
          Moves(r, [req[r] EXCEPT
                      !.lookup = p, !.page = p,
                      !.at = IF p = NoRow THEN "page" ELSE "ui_hero"])
    /\ UNCHANGED <<tables, kwargs_log>>

\* The rejected page insert answered with the page already stored.
RouteSamplePage_reuse_stored(r) ==
    /\ req[r].at = "page"
    /\ LET c == create_landing_page(LandingPageCreate(landing_page_data_kwargs))
       IN  /\ landing_pages' = c.table
           /\ Moves(r, IF c.err = "none"
                       THEN [req[r] EXCEPT !.at = "hero", !.called = TRUE,
                                           !.page = c.ret]
                       ELSE [req[r] EXCEPT
                               !.at = "ui_hero", !.called = TRUE,
                               !.page = CHOOSE p \in Range(landing_pages) :
                                           p.slug = "home"])
    /\ UNCHANGED <<hero_sections, features, cta_sections, landing_page_themes,
                   kwargs_log>>

\* lines 353-356: page is None, create_sample_data is invoked; its page insert
RouteSamplePage(r) ==
    /\ req[r].at = "page"
    /\ LET c == create_landing_page(LandingPageCreate(landing_page_data_kwargs))
       IN  /\ landing_pages' = c.table
           /\ Moves(r, IF c.err = "none"
                       THEN [req[r] EXCEPT !.at = "hero", !.called = TRUE,
                                           !.page = c.ret]
                       ELSE Caught(r, c.err))
    /\ UNCHANGED <<hero_sections, features, cta_sections, landing_page_themes,
                   kwargs_log>>

RouteSampleHero(r) ==
    /\ req[r].at = "hero"
    /\ LET kw == hero_data_kwargs(req[r].page.id)
           c == create_hero_section(HeroSectionCreate(kw))
       IN  /\ hero_sections' = c.table
           /\ hero_kwargs' = Logged(hero_kwargs, kw, c)
           /\ Moves(r, IF c.err = "none"
                       THEN [req[r] EXCEPT !.at = "features", !.i = 1]
                       ELSE Caught(r, c.err))
    /\ UNCHANGED <<landing_pages, features, cta_sections, landing_page_themes,
                   feature_kwargs, cta_kwargs>>

RouteSampleFeature(r) ==
    /\ req[r].at = "features"
    /\ LET features_data == features_data_kwargs(req[r].page.id)
           kw == features_data[req[r].i]
           c == create_feature(FeatureCreate(kw))
       IN  /\ features' = c.table
           /\ feature_kwargs' = Logged(feature_kwargs, kw, c)
           /\ Moves(r, IF c.err # "none" THEN Caught(r, c.err)
                       ELSE IF req[r].i < Len(features_data)
                       THEN [req[r] EXCEPT !.i = @ + 1]
                       ELSE [req[r] EXCEPT !.at = "cta", !.i = 0])
    /\ UNCHANGED <<landing_pages, hero_sections, cta_sections, landing_page_themes,
                   hero_kwargs, cta_kwargs>>

\* the last insert of create_sample_data; it returns and the handler goes on
\* to create_landing_page_ui (line 363)
RouteSampleCta(r) ==
    /\ req[r].at = "cta"
    /\ LET kw == cta_data_kwargs(req[r].page.id)
           c == create_cta_section(CallToActionSectionCreate(kw))
       IN  /\ cta_sections' = c.table
           /\ cta_kwargs' = Logged(cta_kwargs, kw, c)
           /\ Moves(r, IF c.err = "none"
                       THEN [req[r] EXCEPT !.at = "ui_hero"]
                       ELSE Caught(r, c.err))
    /\ UNCHANGED <<landing_pages, hero_sections, features, landing_page_themes,
                   hero_kwargs, feature_kwargs>>

\* The store fails a component insert of create_sample_data; the exception
\* reaches the handler's except (lines 358-361).
RouteComponentFault(r) ==
    /\ req[r].at \in {"hero", "features", "cta"}
    /\ Moves(r, Caught(r, StoreFailure.err))
    /\ UNCHANGED <<tables, kwargs_log>>

\* The handler has returned; the next request to / starts afresh.
RouteReturn(r) ==
    /\ req[r].at \in {"done", "error"}
    /\ req[r].served < MaxVisits
    /\ Moves(r, [NoRequest EXCEPT !.served = req[r].served + 1])
    /\ UNCHANGED <<tables, kwargs_log>>

\* create_landing_page_ui called with a page of the store or with a page
\* object that was never stored.
UnsavedPages ==
    {Row(LandingPageDefaults, LandingPageCreate(kw), NoId) : kw \in LandingPagePayloads}

UiCall(r) ==
    /\ req[r].at = "idle"
    /\ \E p \in Range(landing_pages) \cup UnsavedPages :
          Moves(r, [req[r] EXCEPT !.at = "ui_hero", !.page = p])
    /\ UNCHANGED <<tables, kwargs_log>>

\* create_landing_page_ui, lines 311-339: the not-found label for a page
\* without id; else three reads, then the sections in the order hero,
\* features, CTA.
RouteUiHero(r) ==
    /\ req[r].at = "ui_hero"
    /\ IF req[r].page.id = NoId
       THEN Moves(r, [req[r] EXCEPT !.at = "done", !.out = @ \o NotFoundLabel])
       ELSE \E hs \in get_hero_sections(req[r].page.id) :
               Moves(r, [req[r] EXCEPT !.at = "ui_features",
                                       !.reads = @ + 1,
                                       !.out = @ \o Section("hero", hs)])
    /\ UNCHANGED <<tables, kwargs_log>>

\* The features section rendered for an empty list too.
RouteUiFeatures_section_always(r) ==
    /\ req[r].at = "ui_features"
    /\ \E fs \in get_features(req[r].page.id) :
          Moves(r, [req[r] EXCEPT
                      !.at = "ui_cta",
                      !.reads = @ + 1,
                      !.out = @ \o << [kind |-> "features", id |-> 0] >>
                                \o Section("featured", featured_features(fs))
                                \o Section("feature", other_features(fs))])
    /\ UNCHANGED <<tables, kwargs_log>>

RouteUiFeatures(r) ==
    /\ req[r].at = "ui_features"
    /\ \E fs \in get_features(req[r].page.id) :
          Moves(r, [req[r] EXCEPT
                      !.at = "ui_cta",
                      !.reads = @ + 1,
                      !.out = @ \o (IF fs = << >> THEN << >>
                                    ELSE FeaturesSection(create_features_section(fs)))])
    /\ UNCHANGED <<tables, kwargs_log>>

RouteUiCta(r) ==
    /\ req[r].at = "ui_cta"
    /\ \E cs \in get_cta_sections(req[r].page.id) :
          Moves(r, [req[r] EXCEPT !.at = "done",
                                  !.reads = @ + 1,
                                  !.out = @ \o Section("cta", cs)])
    /\ UNCHANGED <<tables, kwargs_log>>

----------------------------------------------------------------------------
(* The session of a repository method.  Every method of LandingPageService  *)
(* but create_sample_data is one block `with get_session() as session:`.    *)
(* sess holds the call in progress: its position (out of the block, in it,  *)
(* leaving it), the sessions open, the sessions the call acquired, the      *)
(* method and its argument, and the outcome the block is left with.         *)

\* get_session() entered and left as a scoped resource.
acquire(open) == open + 1
release(open) == open - 1

ReadCalls ==
    {[call |-> "get_active_landing_page", kw |-> [slug |-> s]] : s \in Slugs}
    \cup {[call |-> c, kw |-> [landing_page_id |-> P]] :
            c \in {"get_hero_sections", "get_features", "get_cta_sections"},
            P \in PageIds}
    \cup {[call |-> "get_theme", kw |-> [name |-> n]] : n \in ThemeNames}

CreateCalls ==
    {[call |-> "create_landing_page", kw |-> kw] : kw \in LandingPagePayloads}
    \cup UNION {
          {[call |-> "create_hero_section", kw |-> kw] : kw \in HeroPayloads(P)}
          \cup {[call |-> "create_feature", kw |-> kw] : kw \in FeaturePayloads(P)}
          \cup {[call |-> "create_cta_section", kw |-> kw] : kw \in CtaPayloads(P)}
          : P \in PageIds}

\* What the query of a read method can return.
ReadValues(call, kw) ==
    CASE call = "get_active_landing_page" -> get_active_landing_page(kw.slug)
      [] call = "get_hero_sections" -> get_hero_sections(kw.landing_page_id)
      [] call = "get_features" -> get_features(kw.landing_page_id)
      [] call = "get_cta_sections" -> get_cta_sections(kw.landing_page_id)
      [] call = "get_theme" -> get_theme(kw.name)

Leaves(r) == sess' = [sess EXCEPT !.at = "exit", !.res = [ret |-> r.ret, err |-> r.err]]

\* with get_session() as session:
SessionEnter ==
    /\ pc = Idle
    /\ sess.at = "out"
    /\ \E c \in ReadCalls \cup CreateCalls :
          /\ c.call \in {"create_hero_section", "create_feature",
                         "create_cta_section"} => StoredRows < MaxSessionRows
          /\ sess' = [at |-> "in", open |-> acquire(sess.open), acquired |-> 1,
                      call |-> c.call, kw |-> c.kw, res |-> NoSession.res]
    /\ UNCHANGED <<tables, kwargs_log, service, view, req>>

\* return session.exec(statement).first() / list(session.exec(statement).all())
SessionRead ==
    /\ sess.at = "in"
    /\ sess.call \in {c.call : c \in ReadCalls}
    /\ \E v \in ReadValues(sess.call, sess.kw) : Leaves([ret |-> v, err |-> "none"])
    /\ UNCHANGED <<tables, kwargs_log, service, view, req>>

\* add, commit, refresh, return of create_landing_page
SessionCreateLandingPage ==
    /\ sess.at = "in" /\ sess.call = "create_landing_page"
    /\ LET r == create_landing_page(LandingPageCreate(sess.kw))
       IN  landing_pages' = r.table /\ Leaves(r)
    /\ UNCHANGED <<hero_sections, features, cta_sections, landing_page_themes,
                   kwargs_log, service, view, req>>

SessionCreateHeroSection ==
    /\ sess.at = "in" /\ sess.call = "create_hero_section"
    /\ LET r == create_hero_section(HeroSectionCreate(sess.kw))
       IN  /\ hero_sections' = r.table
           /\ hero_kwargs' = Logged(hero_kwargs, sess.kw, r)
           /\ Leaves(r)
    /\ UNCHANGED <<landing_pages, features, cta_sections, landing_page_themes,
                   feature_kwargs, cta_kwargs, service, view, req>>

SessionCreateFeature ==
    /\ sess.at = "in" /\ sess.call = "create_feature"
    /\ LET r == create_feature(FeatureCreate(sess.kw))
       IN  /\ features' = r.table
           /\ feature_kwargs' = Logged(feature_kwargs, sess.kw, r)
           /\ Leaves(r)
    /\ UNCHANGED <<landing_pages, hero_sections, cta_sections, landing_page_themes,
                   hero_kwargs, cta_kwargs, service, view, req>>

SessionCreateCtaSection ==
    /\ sess.at = "in" /\ sess.call = "create_cta_section"
    /\ LET r == create_cta_section(CallToActionSectionCreate(sess.kw))
       IN  /\ cta_sections' = r.table
           /\ cta_kwargs' = Logged(cta_kwargs, sess.kw, r)
           /\ Leaves(r)
    /\ UNCHANGED <<landing_pages, hero_sections, features, landing_page_themes,
                   hero_kwargs, feature_kwargs, service, view, req>>

\* The store fails the query, the commit or the refresh: the exception leaves
\* the block.
SessionFault ==
    /\ sess.at = "in"
    /\ Leaves(StoreFailure)
    /\ UNCHANGED <<tables, kwargs_log, service, view, req>>

\* The session closed at the end of the block's body, which an exception
\* does not reach.
SessionExit_close_after_body ==
    /\ sess.at = "exit"
    /\ sess' = [sess EXCEPT !.at = "out",
                            !.open = IF sess.res.err = "none" THEN release(@) ELSE @]
    /\ Returns(sess.call, sess.kw, sess.res)
    /\ UNCHANGED <<tables, kwargs_log, pc, landing_page, view, req>>

\* The block is left, by return or by exception: the session is released
\* and the caller gets the value or the error.
SessionExit ==
    /\ sess.at = "exit"
    /\ sess' = [sess EXCEPT !.at = "out", !.open = release(@)]
    /\ Returns(sess.call, sess.kw, sess.res)
    /\ UNCHANGED <<tables, kwargs_log, pc, landing_page, view, req>>

----------------------------------------------------------------------------
(* The specification: sequential calls against a store that starts empty *)

\* Nothing called, requested or rendered yet.
Quiet ==
    /\ pc = Idle
    /\ landing_page = NoRow
    /\ op = "none"
    /\ arg = NoArgs
    /\ ret = NoRow
    /\ err = "none"
    /\ view = NoView
    /\ req = [r \in Requests |-> NoRequest]
    /\ sess = NoSession

Init ==
    /\ landing_pages = <<>>
    /\ hero_sections = <<>>
    /\ features = <<>>
    /\ cta_sections = <<>>
    /\ landing_page_themes = <<>>
    /\ hero_kwargs = <<>>
    /\ feature_kwargs = <<>>
    /\ cta_kwargs = <<>>
    /\ Quiet

Next ==
    \/ CreateLandingPage
    \/ CreateHeroSection
    \/ CreateFeature
    \/ CreateCtaSection
    \/ SampleLandingPage
    \/ SampleHero
    \/ SampleFeature
    \/ SampleCta
    \/ store_update
    \/ store_insert_theme

Spec == Init /\ [][Next]_vars

\* The same calls against a store whose commits can fail.
NextFault ==
    \/ Next
    \/ SamplePageFault
    \/ SampleComponentFault

SpecFault == Init /\ [][NextFault]_vars

\* The store the requests arrive at: pages created and updated before the
\* first request.
RouteSetup ==
    /\ \A r \in Requests : req[r].at = "idle"
    /\ CreateLandingPage \/ store_update

\* Requests to the / route, each served once.
NextRoute ==
    \/ RouteSetup
    \/ \E r \in Requests :
          \/ RouteLookup(r)
          \/ RouteSamplePage(r)
          \/ RouteSampleHero(r)
          \/ RouteSampleFeature(r)
          \/ RouteSampleCta(r)
          \/ RouteUiHero(r)
          \/ RouteUiFeatures(r)
          \/ RouteUiCta(r)

SpecRoute == Init /\ [][NextRoute]_vars

\* Calls of the repository methods, one at a time, each followed through its
\* session.
NextSession ==
    \/ SessionEnter
    \/ SessionRead
    \/ SessionCreateLandingPage
    \/ SessionCreateHeroSection
    \/ SessionCreateFeature
    \/ SessionCreateCtaSection
    \/ SessionFault
    \/ SessionExit

SpecSession == Init /\ [][NextSession]_vars

\* Requests to the / route one after another, against a store whose
\* component inserts can fail.
OneAtATime(r) == \A q \in Requests \ {r} : req[q].at = "idle"

NextVisits ==
    \/ RouteSetup
    \/ \E r \in Requests :
          \/ OneAtATime(r) /\ RouteLookup(r)
          \/ OneAtATime(r) /\ RouteSamplePage(r)
          \/ OneAtATime(r) /\ RouteSampleHero(r)
          \/ OneAtATime(r) /\ RouteSampleFeature(r)
          \/ OneAtATime(r) /\ RouteSampleCta(r)
          \/ OneAtATime(r) /\ RouteComponentFault(r)
          \/ OneAtATime(r) /\ RouteUiHero(r)
          \/ OneAtATime(r) /\ RouteUiFeatures(r)
          \/ OneAtATime(r) /\ RouteUiCta(r)
          \/ OneAtATime(r) /\ RouteReturn(r)

SpecVisits == Init /\ [][NextVisits]_vars

\* create_landing_page_ui called on the pages of a store that
\* create_landing_page and create_sample_data are filling, and on pages never
\* stored.
NextUi ==
    \/ CreateLandingPage
    \/ SampleLandingPage
    \/ SampleHero
    \/ SampleFeature
    \/ SampleCta
    \/ \E r \in Requests :
          \/ UiCall(r)
          \/ RouteUiHero(r)
          \/ RouteUiFeatures(r)
          \/ RouteUiCta(r)

SpecUi == Init /\ [][NextUi]_vars

----------------------------------------------------------------------------
(* The feature partition on feature lists of every shape: one page whose    *)
(* features, up to MaxListLen of them, carry distinct display_order values  *)
(* and any choice of is_featured.                                           *)

MaxListLen == 6

ListedFeatureKwargs(flag) ==
    [landing_page_id |-> 1, title |-> "Feature A",
     description |-> "Description A", is_featured |-> flag]

ListedFeatures(flags) ==
    [i \in DOMAIN flags |->
        [Row(FeatureDefaults, FeatureCreate(ListedFeatureKwargs(flags[i])), i)
            EXCEPT !.display_order = i]]

InitFeatures ==
    /\ landing_pages =
          << Row(LandingPageDefaults,
                 LandingPageCreate([title |-> "Test Page", slug |-> "about"]), 1) >>
    /\ hero_sections = << >>
    /\ cta_sections = << >>
    /\ landing_page_themes = << >>
    /\ hero_kwargs = << >>
    /\ cta_kwargs = << >>
    /\ \E n \in 0 .. MaxListLen : \E flags \in [1 .. n -> BOOLEAN] :
          /\ features = ListedFeatures(flags)
          /\ feature_kwargs = [i \in 1 .. n |-> ListedFeatureKwargs(flags[i])]
    /\ Quiet

NextFeatures == RenderFeatures

SpecFeatures == InitFeatures /\ [][NextFeatures]_vars

----------------------------------------------------------------------------
(* Properties *)

ActiveOf(table, P) == {x \in Range(table) : x.landing_page_id = P /\ x.is_active}
RowsOf(table, P) == {i \in DOMAIN table : table[i].landing_page_id = P}
SampleReturned == op = "create_sample_data" /\ err = "none" /\ pc = Idle

\* The store holds the complete content of an earlier create_sample_data call.
Seeded ==
    \E p \in Range(landing_pages) :
        /\ p.slug = "home" /\ p.title = "Modern Landing Page"
        /\ Cardinality(RowsOf(hero_sections, p.id)) = 1
        /\ Cardinality(RowsOf(features, p.id)) = 6
        /\ Cardinality(RowsOf(cta_sections, p.id)) = 1

\* C1: a hero section, feature or CTA section whose is_active is false is in
\* no result of get_hero_sections, get_features or get_cta_sections, for any
\* page id; every returned row is active.
NoInactive(results, table) ==
    /\ results # {}
    /\ \A r \in results :
          /\ \A i \in DOMAIN r : r[i].is_active
          /\ \A x \in Range(table) : ~x.is_active => x \notin Range(r)

C1_InactiveRowsNeverReturned ==
    \A P \in PageIds :
        /\ NoInactive(get_hero_sections(P), hero_sections)
        /\ NoInactive(get_features(P), features)
        /\ NoInactive(get_cta_sections(P), cta_sections)

\* An inactive hero row stays in the store next to an active one of the same
\* page, and the accessor returns the active one alone.
C1_Witness ==
    \E h, g \in Range(hero_sections) :
        /\ ~h.is_active /\ g.is_active
        /\ g.landing_page_id = h.landing_page_id
        /\ get_hero_sections(h.landing_page_id) = {<<g>>}

\* C2: for every page id P each accessor returns exactly the rows of its
\* table with landing_page_id = P and is_active, each of them once.
Exactly(results, S) ==
    /\ results # {}
    /\ \A r \in results : Range(r) = S /\ Len(r) = Cardinality(S)

C2_ExactlyActiveRowsOfPage ==
    \A P \in PageIds :
        /\ Exactly(get_hero_sections(P), ActiveOf(hero_sections, P))
        /\ Exactly(get_features(P), ActiveOf(features, P))
        /\ Exactly(get_cta_sections(P), ActiveOf(cta_sections, P))

\* Two pages own one active CTA section each; each page gets its own.
C2_Witness ==
    \E c, d \in Range(cta_sections) :
        /\ c.is_active /\ d.is_active
        /\ c.landing_page_id = 1 /\ d.landing_page_id = 2
        /\ get_cta_sections(1) = {<<c>>}
        /\ get_cta_sections(2) = {<<d>>}

\* C3: every result of get_features ascends in display_order, and features of
\* equal display_order ascend in title.
C3_FeaturesSorted ==
    \A P \in PageIds :
        /\ get_features(P) # {}
        /\ \A r \in get_features(P) : \A i, j \in DOMAIN r :
              i < j =>
                 /\ r[i].display_order <= r[j].display_order
                 /\ r[i].display_order = r[j].display_order
                       => ~LexLess(Chars(r[j].title), Chars(r[i].title))

\* Features created as (2, Feature B) then (1, Feature A) for one page are
\* returned as [Feature A, Feature B].
C3_Witness ==
    /\ Len(features) = 2
    /\ feature_kwargs[1].title = "Feature B" /\ feature_kwargs[1].display_order = 2
    /\ feature_kwargs[2].title = "Feature A"
    /\ "display_order" \in DOMAIN feature_kwargs[2]
    /\ feature_kwargs[2].display_order = 1
    /\ features[1].landing_page_id = features[2].landing_page_id
    /\ get_features(features[1].landing_page_id) = {<<features[2], features[1]>>}

\* C4: two hero sections (two CTA sections) created for one page, the first
\* with display_order 2 and the second with display_order 1, are returned
\* with the second one first.
GivenOrderRespected(name, table, log, results) ==
    LET n == Len(table) IN
    ( /\ op = name /\ err = "none" /\ n >= 2
      /\ table[n-1].landing_page_id = table[n].landing_page_id
      /\ RowsOf(table, table[n].landing_page_id) = {n-1, n}
      /\ "display_order" \in DOMAIN log[n-1] \cap DOMAIN log[n]
      /\ log[n-1].display_order = 2 /\ log[n].display_order = 1 )
    => results = {<<table[n], table[n-1]>>}

C4_GivenOrderRespected ==
    /\ GivenOrderRespected("create_hero_section", hero_sections, hero_kwargs,
           get_hero_sections(hero_sections[Len(hero_sections)].landing_page_id))
    /\ GivenOrderRespected("create_cta_section", cta_sections, cta_kwargs,
           get_cta_sections(cta_sections[Len(cta_sections)].landing_page_id))

\* C5: at most one page per slug; create_landing_page with the slug of an
\* existing page raises the constraint error and leaves the store unchanged.
OnePagePerSlug ==
    \A i, j \in DOMAIN landing_pages :
        landing_pages[i].slug = landing_pages[j].slug => i = j

CollisionRejected ==
    ( /\ pc = Idle /\ pc' = Idle
      /\ op' = "create_landing_page"
      /\ \E p \in Range(landing_pages) : p.slug = arg'.slug )
    => /\ err' = "IntegrityError"
       /\ ret' = NoRow
       /\ tables' = tables

C5_SlugUniqueness == []OnePagePerSlug /\ [][CollisionRejected]_vars

\* create_landing_page was called with the slug of a stored page and raised.
C5_Witness ==
    /\ op = "create_landing_page" /\ err = "IntegrityError"
    /\ \E p \in Range(landing_pages) : p.slug = arg.slug

\* C6: for a page that has no components and for a page id that matches no
\* page, each accessor returns the empty sequence and nothing else.
NoComponents(P) ==
    RowsOf(hero_sections, P) \cup RowsOf(features, P) \cup RowsOf(cta_sections, P) = {}

C6_EmptyForEmptyOrMissingPage ==
    \A P \in PageIds :
        (P \notin DOMAIN landing_pages \/ NoComponents(P)) =>
            /\ get_hero_sections(P) = {<< >>}
            /\ get_features(P) = {<< >>}
            /\ get_cta_sections(P) = {<< >>}

\* Page 1 exists without components, page 2 has an active feature and an
\* active hero section, and no page has the largest id.
C6_Witness ==
    /\ DOMAIN landing_pages = {1, 2}
    /\ NoComponents(1)
    /\ ActiveOf(features, 2) # {} /\ ActiveOf(hero_sections, 2) # {}
    /\ \A P \in PageIds \ {2} : get_features(P) = {<< >>} /\ get_hero_sections(P) = {<< >>}

\* C7: get_active_landing_page(slug) returns the one active page of that
\* slug when there is one and None otherwise, also when the page of that slug
\* is inactive; get_theme(name) does the same for themes by name.
LooksUp(results, table, key, value) ==
    /\ Cardinality(results) = 1
    /\ \A r \in results :
          IF \E x \in Range(table) : x[key] = value /\ x.is_active
          THEN r \in Range(table) /\ r[key] = value /\ r.is_active
          ELSE r = NoRow

C7_ActiveLookup ==
    /\ \A slug \in Slugs \cup {"nonexistent"} :
          LooksUp(get_active_landing_page(slug), landing_pages, "slug", slug)
    /\ \A name \in ThemeNames \cup {"nonexistent"} :
          LooksUp(get_theme(name), landing_page_themes, "name", name)

\* The only page of slug home is inactive and is not returned, while the
\* active page of slug about is.
C7_Witness ==
    /\ \E p \in Range(landing_pages) : p.slug = "home" /\ ~p.is_active
    /\ get_active_landing_page("home") = {NoRow}
    /\ \E q \in Range(landing_pages) :
          q.slug = "about" /\ get_active_landing_page("about") = {q}

\* C8: when create_sample_data returns, the store holds exactly one page of
\* slug home, the returned one, and linked to its id exactly 1 hero section,
\* 6 features, 3 of them featured, and 1 CTA section; and
\* get_active_landing_page(home) returns that page.
C8_SampleShape ==
    SampleReturned =>
        /\ ret \in Range(landing_pages)
        /\ ret.slug = "home"
        /\ Cardinality({i \in DOMAIN landing_pages : landing_pages[i].slug = "home"}) = 1
        /\ Cardinality(RowsOf(hero_sections, ret.id)) = 1
        /\ Cardinality(RowsOf(features, ret.id)) = 6
        /\ Cardinality({i \in RowsOf(features, ret.id) : features[i].is_featured}) = 3
        /\ Cardinality(RowsOf(cta_sections, ret.id)) = 1
        /\ get_active_landing_page("home") = {ret}

\* create_sample_data returned on a store that also holds another page with
\* components of its own.
C8_Witness ==
    /\ SampleReturned
    /\ \E h \in Range(hero_sections) : h.landing_page_id # ret.id
    /\ \E f \in Range(features) : f.landing_page_id # ret.id

\* C9: after create_sample_data the featured features have display_order 1,
\* 2, 3, the others 4, 5, 6, and get_features returns them in the order the
\* generator lists them, featured ones first.
C9_SampleDisplayOrder ==
    SampleReturned =>
        LET F == {f \in Range(features) : f.landing_page_id = ret.id} IN
        /\ {f.display_order : f \in {g \in F : g.is_featured}} = {1, 2, 3}
        /\ {f.display_order : f \in {g \in F : ~g.is_featured}} = {4, 5, 6}
        /\ \A r \in get_features(ret.id) :
              [i \in DOMAIN r |-> r[i].title] =
              [i \in 1..6 |-> features_data_kwargs(ret.id)[i].title]

\* C10 as stated: a create_sample_data call that follows a completed one
\* inserts a second page and goes on to insert its components.
C10_SecondCallCompletes ==
    [][ ( /\ pc = Idle /\ Seeded
          /\ (pc' # Idle \/ op' = "create_sample_data") )
        => /\ pc'.at = "hero"
           /\ Len(landing_pages') = Len(landing_pages) + 1 ]_vars

\* C10 amended: a create_sample_data call that follows a completed one does
\* not look for a home page; its page insert is rejected by the slug
\* constraint, it raises IntegrityError and adds no page and no component.
C10_SecondCallRejected ==
    [][ ( /\ pc = Idle /\ Seeded
          /\ (pc' # Idle \/ op' = "create_sample_data") )
        => /\ pc' = Idle
           /\ err' = "IntegrityError"
           /\ ret' = NoRow
           /\ tables' = tables
           /\ kwargs_log' = kwargs_log ]_vars

\* After a completed create_sample_data call a further one has just raised,
\* and the store still holds one page of slug home.
C10_Witness ==
    /\ op = "create_sample_data" /\ err = "IntegrityError" /\ pc = Idle
    /\ Seeded
    /\ Cardinality({i \in DOMAIN landing_pages : landing_pages[i].slug = "home"}) = 1

\* C11: the featured partition is the first 3 (or all, if fewer) featured
\* features of the list in the list's order, the others partition is every
\* feature that is not featured in the list's order, the two share no
\* feature, and get_features returned every active feature of the page.
Kth(I, k) == CHOOSE i \in I : Cardinality({j \in I : j <= i}) = k

\* part is the elements of fs at the first n indices of I, in order.
FirstOf(part, fs, I, n) ==
    /\ Len(part) = n
    /\ \A k \in 1 .. n : part[k] = fs[Kth(I, k)]

C11_FeaturePartition ==
    view.rendered =>
        LET fs == view.features
            Fidx == {i \in DOMAIN fs : fs[i].is_featured}
            Oidx == DOMAIN fs \ Fidx
        IN  /\ FirstOf(view.featured_features, fs, Fidx, Min(3, Cardinality(Fidx)))
            /\ FirstOf(view.other_features, fs, Oidx, Cardinality(Oidx))
            /\ Range(view.featured_features) \cap Range(view.other_features) = {}
            /\ \E P \in PageIds :
                  /\ fs \in get_features(P)
                  /\ Len(fs) = Cardinality(ActiveOf(features, P))

\* Four or more featured features and some others were rendered: three cards,
\* and the list itself was not cut.
C11_Witness ==
    /\ view.rendered
    /\ Cardinality({i \in DOMAIN view.features : view.features[i].is_featured}) >= 4
    /\ Len(view.featured_features) = 3
    /\ Len(view.other_features) >= 1
    /\ Len(view.features) >= 5

\* C12: with 5 featured features of distinct display_order in the list, the
\* featured partition holds the first 3 by order, the others partition holds
\* the remaining 2 featured features and all the non-featured ones in order,
\* and every feature of the list is in exactly one partition.
C12_FiveFeatured ==
    ( /\ view.rendered
      /\ Cardinality({i \in DOMAIN view.features : view.features[i].is_featured}) = 5 )
    => LET fs == view.features
           Fidx == {i \in DOMAIN fs : fs[i].is_featured}
           Rest == DOMAIN fs \ {Kth(Fidx, 1), Kth(Fidx, 2), Kth(Fidx, 3)}
       IN  /\ FirstOf(view.featured_features, fs, Fidx, 3)
           /\ FirstOf(view.other_features, fs, Rest, Cardinality(Rest))
           /\ \A i \in DOMAIN fs :
                 (fs[i] \in Range(view.featured_features))
                    # (fs[i] \in Range(view.other_features))

\* C13: after a create_landing_page, create_hero_section, create_feature or
\* create_cta_section call has returned, every field the caller supplied has
\* the supplied value on the returned entity, and the stored row of that id
\* is the returned entity.
CreatedTable ==
    IF op = "create_landing_page" THEN landing_pages
    ELSE IF op = "create_hero_section" THEN hero_sections
    ELSE IF op = "create_feature" THEN features
    ELSE cta_sections

C13_RoundTrip ==
    ( /\ op \in {"create_landing_page", "create_hero_section",
                 "create_feature", "create_cta_section"}
      /\ err = "none" )
    => /\ \A f \in DOMAIN arg : ret[f] = arg[f]
       /\ ret.id \in DOMAIN CreatedTable
       /\ CreatedTable[ret.id] = ret

\* C14: after create_sample_data the hero section of the page has
\* background_color #1e293b, text_color #ffffff, primary_button_text Get
\* Started and primary_button_url /signup; every featured feature has an icon
\* and an icon_color; the CTA section has secondary_button_text View Pricing
\* and secondary_button_url /pricing.
C14_SampleContent ==
    SampleReturned =>
        /\ \A r \in get_hero_sections(ret.id) :
              /\ Len(r) = 1
              /\ r[1].background_color = "#1e293b"
              /\ r[1].text_color = "#ffffff"
              /\ r[1].primary_button_text = "Get Started"
              /\ r[1].primary_button_url = "/signup"
        /\ \A r \in get_features(ret.id) : \A i \in DOMAIN r :
              r[i].is_featured => r[i].icon # None /\ r[i].icon_color # None
        /\ \A r \in get_cta_sections(ret.id) :
              /\ Len(r) = 1
              /\ r[1].secondary_button_text = "View Pricing"
              /\ r[1].secondary_button_url = "/pricing"

\* C15: every hero section, feature and CTA section row names an existing
\* page; create_hero_section, create_feature and create_cta_section called
\* with a landing_page_id that matches no page raise and persist no row.
PageIdsStored == {p.id : p \in Range(landing_pages)}

ReferencesHold ==
    \A table \in {hero_sections, features, cta_sections} :
        \A x \in Range(table) : x.landing_page_id \in PageIdsStored

MissingTargetRejected ==
    ( /\ pc = Idle /\ pc' = Idle
      /\ op' \in {"create_hero_section", "create_feature", "create_cta_section"}
      /\ arg'.landing_page_id \notin PageIdsStored )
    => /\ err' # "none"
       /\ ret' = NoRow
       /\ tables' = tables

C15_ForeignKey == []ReferencesHold /\ [][MissingTargetRejected]_vars

\* create_feature was called with an id that no stored page has, and raised,
\* while another page is stored.
C15_Witness ==
    /\ op = "create_feature" /\ err # "none"
    /\ arg.landing_page_id \notin PageIdsStored
    /\ landing_pages # << >>

\* C16: when a component insert of create_sample_data fails, the error
\* propagates to the caller and no row committed before is undone: the page
\* and the components inserted so far remain, and no row ever leaves a table.
ComponentFailureKeepsRows ==
    ( /\ pc.at \in {"hero", "features", "cta"}
      /\ pc' = Idle /\ err' # "none" )
    => /\ op' = "create_sample_data"
       /\ ret' = NoRow
       /\ tables' = tables
       /\ landing_page \in Range(landing_pages')

RowsRemain ==
    /\ Len(landing_pages') >= Len(landing_pages)
    /\ Len(hero_sections') >= Len(hero_sections)
    /\ Len(features') >= Len(features)
    /\ Len(cta_sections') >= Len(cta_sections)

C16_NotTransactional == [][ComponentFailureKeepsRows /\ RowsRemain]_vars

\* create_sample_data raised right after its page insert: the active page of
\* slug home is stored without any component.
C16_Witness ==
    /\ op = "create_sample_data" /\ err = "OperationalError" /\ pc = Idle
    /\ landing_page # NoRow
    /\ landing_page \in get_active_landing_page("home")
    /\ landing_page.title = "Modern Landing Page"
    /\ NoComponents(landing_page.id)

\* C17: when the page insert of create_sample_data fails, the call raises
\* and inserts nothing; the component inserts are reached only past a
\* committed page insert.
PageFailureInsertsNothing ==
    /\ ( pc = Idle /\ pc' = Idle /\ op' = "create_sample_data" )
       => /\ err' # "none"
          /\ ret' = NoRow
          /\ tables' = tables
    /\ ( pc = Idle /\ pc' # Idle )
       => /\ landing_pages' = Append(landing_pages, landing_page')
          /\ landing_page'.slug = "home"
          /\ UNCHANGED <<hero_sections, features, cta_sections>>

C17_PageFailure == [][PageFailureInsertsNothing]_vars

\* create_sample_data raised on its page insert while the store holds a home
\* page with a hero section of its own.
C17_Witness ==
    /\ op = "create_sample_data" /\ err = "IntegrityError" /\ pc = Idle
    /\ \E p \in Range(landing_pages) :
          p.slug = "home" /\ RowsOf(hero_sections, p.id) # {}

\* C18: two concurrent requests to / against a store without a home page
\* can both look up None and both invoke create_sample_data; then exactly
\* one page insert succeeds, every other request fails with the constraint
\* error and inserts no component, and the store never holds two pages of
\* slug home.
HomePages == {p \in Range(landing_pages) : p.slug = "home"}

\* No home page was stored when the requests arrived.
NoHomeAtArrival == \A p \in HomePages : p.title = "Modern Landing Page"

C18_ConcurrentSeeding ==
    /\ Cardinality(HomePages) <= 1
    /\ ( NoHomeAtArrival /\ \A r \in Requests : req[r].called )
       => \E w \in Requests :
             /\ req[w].err = "none"
             /\ req[w].page \in HomePages
             /\ \A l \in Requests \ {w} :
                   /\ req[l].err = "IntegrityError"
                   /\ req[l].at = "error"
                   /\ req[l].out = ErrorLabel
             /\ \A x \in Range(hero_sections) \cup Range(features)
                         \cup Range(cta_sections) :
                   x.landing_page_id = req[w].page.id
             /\ Len(hero_sections) <= 1
             /\ Len(features) <= 6
             /\ Len(cta_sections) <= 1

\* Both requests looked up None and invoked create_sample_data; one was
\* rejected and the other rendered the page it seeded.
C18_Witness ==
    /\ NoHomeAtArrival
    /\ \A r \in Requests : req[r].lookup = NoRow /\ req[r].called
    /\ \E r \in Requests : req[r].err = "IntegrityError"
    /\ \E r \in Requests : req[r].at = "done" /\ Len(req[r].out) = 9

\* C19: the handler invokes create_sample_data exactly when its lookup
\* returned None; a request whose lookup returned a page, with or without
\* components, changes no table.
IsPage(x) == x # Pending /\ x # NoRow

SeedsIffNone ==
    \A r \in Requests :
        (req[r].called \/ req[r].at = "page") <=> (req[r].lookup = NoRow)

FoundPageReadOnly ==
    \A r \in Requests :
        ( /\ req'[r] # req[r]
          /\ req[r].at = "idle" \/ IsPage(req[r].lookup) )
        => tables' = tables

C19_SeedOnlyWhenMissing == []SeedsIffNone /\ [][FoundPageReadOnly]_vars

\* A request found the active home page without components and rendered it,
\* empty, creating nothing.
C19_Witness ==
    \E r \in Requests :
        /\ req[r].at = "done"
        /\ IsPage(req[r].lookup)
        /\ ~req[r].called
        /\ req[r].out = << >>
        /\ NoComponents(req[r].lookup.id)
        /\ \A q \in Requests : ~req[q].called

\* C20: a repository operation holds exactly one session while it runs, and
\* none once it has returned or raised, whichever way its block was left.
C20_SessionScoped ==
    /\ sess.at = "out" => sess.open = 0
    /\ sess.at \in {"in", "exit"} => sess.open = 1 /\ sess.acquired = 1
    /\ op # "none" => sess.acquired = 1

\* An operation has raised the store's failure and holds no session.
C20_Witness ==
    /\ sess.at = "out" /\ sess.open = 0
    /\ op = sess.call /\ op \in {c.call : c \in ReadCalls \cup CreateCalls}
    /\ err = "OperationalError"

\* C21: an entity a create_* method returned is active and is returned by
\* the read accessor of its page (a page: by the lookup of its slug) until
\* the store is next updated; a feature created without is_featured is not
\* featured.
CreateOps == {"create_landing_page", "create_hero_section", "create_feature",
              "create_cta_section"}

Created == op \in CreateOps /\ err = "none"

ReadBack ==
    CASE op = "create_landing_page" -> get_active_landing_page(ret.slug) = {ret}
      [] op = "create_hero_section" ->
            \A hs \in get_hero_sections(ret.landing_page_id) : ret \in Range(hs)
      [] op = "create_feature" ->
            \A fs \in get_features(ret.landing_page_id) : ret \in Range(fs)
      [] op = "create_cta_section" ->
            \A cs \in get_cta_sections(ret.landing_page_id) : ret \in Range(cs)

C21_CreatedActive ==
    Created =>
        /\ ret.is_active
        /\ ReadBack
        /\ (op = "create_feature" /\ "is_featured" \notin DOMAIN arg)
              => ~ret.is_featured

\* create_feature has returned a feature created without is_featured, next
\* to another feature of the same page.
C21_Witness ==
    /\ Created /\ op = "create_feature"
    /\ "is_featured" \notin DOMAIN arg
    /\ Cardinality(RowsOf(features, ret.landing_page_id)) = 2

\* C22: a successful create_* call returns the row it appended, whose id is
\* an integer no other row of its table has; the rows stored before are
\* unchanged, in its table and in the others.
Last(t) == t[Len(t)]

Appended(t, tnew) ==
    Len(tnew) > Len(t) =>
        /\ Len(tnew) = Len(t) + 1
        /\ SubSeq(tnew, 1, Len(t)) = t
        /\ Last(tnew).id \in Nat \ {0}
        /\ \A i \in DOMAIN t : t[i].id # Last(tnew).id

OneTableAtATime ==
    Cardinality({k \in 1 .. 5 : Len(tables'[k]) > Len(tables[k])}) = 1
    => Cardinality({k \in 1 .. 5 : tables'[k] # tables[k]}) = 1

ReturnsLast(name, t, tnew) ==
    (op' = name /\ err' = "none" /\ ret' # ret)
    => Len(tnew) = Len(t) + 1 /\ ret' = Last(tnew)

CreateAppends ==
    /\ Appended(landing_pages, landing_pages')
    /\ Appended(hero_sections, hero_sections')
    /\ Appended(features, features')
    /\ Appended(cta_sections, cta_sections')
    /\ OneTableAtATime
    /\ ReturnsLast("create_landing_page", landing_pages, landing_pages')
    /\ ReturnsLast("create_hero_section", hero_sections, hero_sections')
    /\ ReturnsLast("create_feature", features, features')
    /\ ReturnsLast("create_cta_section", cta_sections, cta_sections')

DistinctIds(t) == \A i, j \in DOMAIN t : t[i].id = t[j].id => i = j

C22_FreshIdRowsKept ==
    /\ [](DistinctIds(landing_pages) /\ DistinctIds(hero_sections)
          /\ DistinctIds(features) /\ DistinctIds(cta_sections))
    /\ [][CreateAppends]_vars

\* create_cta_section has returned the second CTA section of the store.
C22_Witness ==
    /\ Created /\ op = "create_cta_section"
    /\ Len(cta_sections) = 2
    /\ ret = cta_sections[2]
    /\ ret.id # cta_sections[1].id

\* C23: when nothing but requests to / has acted on an empty store and one
\* of them has seeded the sample content completely, the store holds exactly
\* 1 page, 1 hero section, 6 features and 1 CTA section, and every further
\* request leaves every table as it is.
OnlyRequests == op = "none"

SeededByRequest == OnlyRequests /\ Len(cta_sections) = 1

SeedKept ==
    SeededByRequest =>
        /\ Len(landing_pages) = 1
        /\ Len(hero_sections) = 1
        /\ Len(features) = 6
        /\ Len(cta_sections) = 1

SeedUntouched == (SeededByRequest /\ OnlyRequests') => tables' = tables

C23_RepeatVisitsKeepSeed == []SeedKept /\ [][SeedUntouched]_vars

\* The third request of a client is answered from the content the first one
\* seeded.
C23_Witness ==
    /\ SeededByRequest
    /\ \E r \in Requests :
          /\ req[r].served = 2
          /\ req[r].at = "done"
          /\ ~req[r].called
          /\ req[r].out # << >>
          /\ \A q \in Requests \ {r} : req[q].served = 0

\* C24: once a page of slug home is stored and no create_sample_data call
\* is past its page insert, no step inserts a component: a page that a
\* failed seeding left without some of its components keeps its counts.
Seeding ==
    \E r \in Requests :
        req[r].called /\ req[r].at \in {"hero", "features", "cta"}

ComponentCounts(P) ==
    << Cardinality(RowsOf(hero_sections, P)),
       Cardinality(RowsOf(features, P)),
       Cardinality(RowsOf(cta_sections, P)) >>

NoRepair ==
    (HomePages # {} /\ ~Seeding) =>
        /\ UNCHANGED <<Len(hero_sections), Len(features), Len(cta_sections)>>
        /\ \A p \in HomePages : ComponentCounts(p.id)' = ComponentCounts(p.id)

C24_PartialSeedNeverRepaired == [][NoRepair]_vars

\* The seeding failed after its third feature; a later request has found
\* the page and rendered the hero section and the three features only.
C24_Witness ==
    \E r \in Requests :
        /\ req[r].at = "done" /\ ~req[r].called
        /\ IsPage(req[r].lookup)
        /\ req[r].lookup.title = "Modern Landing Page"
        /\ ComponentCounts(req[r].lookup.id) = <<1, 3, 0>>
        /\ \E q \in Requests : req[q].served > 0

\* C25: while the stored page of slug home is inactive, every request to /
\* looks up None, invokes create_sample_data, has its page insert rejected
\* by the slug constraint, shows the error label and nothing else, and
\* leaves every table as it is.
InactiveHome == \E p \in HomePages : ~p.is_active

RejectedEveryTime ==
    InactiveHome =>
        \A r \in Requests :
            /\ (req[r].at = "idle" /\ req'[r].at # "idle")
                  => req'[r].lookup = NoRow /\ req'[r].at = "page"
            /\ (req[r].at = "page" /\ req'[r] # req[r])
                  => /\ req'[r].called
                     /\ req'[r].at = "error"
                     /\ req'[r].err = "IntegrityError"
                     /\ req'[r].out = ErrorLabel
            /\ req'[r] # req[r] => tables' = tables

NothingRendered ==
    InactiveHome =>
        \A r \in Requests :
            /\ req[r].at \in {"idle", "page", "error"}
            /\ req[r].out \in {<< >>, ErrorLabel}

C25_InactiveHomeAlwaysFails == []NothingRendered /\ [][RejectedEveryTime]_vars

\* The third request of a client against the inactive home page has ended
\* with the error label, as the two before it.
C25_Witness ==
    /\ InactiveHome
    /\ \E r \in Requests :
          /\ req[r].served = 2
          /\ req[r].at = "error"
          /\ req[r].err = "IntegrityError"
          /\ req[r].out = ErrorLabel
          /\ Len(landing_pages) = 1

\* C26: create_landing_page_ui shows only the not-found label and reads
\* nothing for a page without id; for a stored page it shows the hero
\* sections as get_hero_sections returned them, then the features section
\* if get_features returned any feature, then the CTA sections as
\* get_cta_sections returned them; it leaves every table as it is.
Ids(kind, out) ==
    LET sel == SelectSeq(out, LAMBDA e : e.kind = kind)
    IN  [k \in 1 .. Len(sel) |-> sel[k].id]

RowIds(rows) == [k \in 1 .. Len(rows) |-> rows[k].id]

Rank(kind) ==
    CASE kind = "hero" -> 1 [] kind = "features" -> 2 [] kind = "featured" -> 3
      [] kind = "feature" -> 4 [] kind = "cta" -> 5 [] OTHER -> 0

InOrder(out) ==
    \A i, j \in DOMAIN out : i < j => Rank(out[i].kind) <= Rank(out[j].kind)

UiStep(r) ==
    /\ (req[r].at = "ui_hero" /\ req'[r] # req[r])
       => IF req[r].page.id = NoId
          THEN /\ req'[r].at = "done"
               /\ req'[r].out = NotFoundLabel
               /\ req'[r].reads = 0
          ELSE /\ req'[r].at = "ui_features"
               /\ Ids("hero", req'[r].out)
                     \in {RowIds(hs) : hs \in get_hero_sections(req[r].page.id)}
    /\ (req[r].at = "ui_features" /\ req'[r] # req[r])
       => \E fs \in get_features(req[r].page.id) :
             /\ Len(Ids("features", req'[r].out)) = IF fs = << >> THEN 0 ELSE 1
             /\ Ids("featured", req'[r].out) \o Ids("feature", req'[r].out)
                   = RowIds(featured_features(fs) \o other_features(fs))
    /\ (req[r].at = "ui_cta" /\ req'[r] # req[r])
       => /\ req'[r].at = "done"
          /\ Ids("cta", req'[r].out)
                \in {RowIds(cs) : cs \in get_cta_sections(req[r].page.id)}
    /\ (req[r].at \in {"ui_hero", "ui_features", "ui_cta"} /\ req'[r] # req[r])
       => tables' = tables

UiResult(r) ==
    req[r].at = "done" =>
        IF req[r].page.id = NoId
        THEN req[r].out = NotFoundLabel /\ req[r].reads = 0
        ELSE /\ req[r].reads = 3
             /\ InOrder(req[r].out)
             /\ \A e \in Range(req[r].out) : Rank(e.kind) > 0

====
